---- MODULE Spec2Model ----
(***************************************************************************)
(* Fuzzy cache matching (fuzzy_cache_match.py): the resolver               *)
(* find_fuzzy_cache_match, its deterministic matcher                       *)
(* basic_similarity_check, the difflib similarity ratio it uses and the    *)
(* arbitration adapter ai_cache_match.                                     *)
(*                                                                         *)
(* Strings are sequences of one-character strings.  Optional values are    *)
(* sequences of length 0 (None) or 1.  A similarity ratio 2.0*M/T is the   *)
(* pair <<2*M, T>>; confidences are counted in tenths (1.0 is 10).         *)
(*                                                                         *)
(* prev is the previous call of the resolver as its caller saw it, for the *)
(* comparison of two calls.  cache is the file cache of backend.py         *)
(* (get_cache_key, check_cache, save_to_cache).                            *)
(***************************************************************************)
EXTENDS Integers, Sequences, FiniteSets, TLC

VARIABLES pc, query, language, dir_exists, cached_articles, idx, similarity,
          basic_match, response, result, calls, prev, cache

vars == <<pc, query, language, dir_exists, cached_articles, idx, similarity,
          basic_match, response, result, calls, prev, cache>>

(***************************************************************************)
(* Bounds of the model                                                     *)
(***************************************************************************)
\* most entries a language partition holds
MaxFiles == 2
\* longest string given to the similarity scorer on its own
MaxLen == 3
\* longest title given to the file cache
MaxTitle == 2
\* most different save_to_cache calls in one run of the file cache
MaxSaves == 2

None == <<>>
Some(x) == <<x>>

SetMax(S) == CHOOSE x \in S : \A y \in S : y <= x
SetMin(S) == CHOOSE x \in S : \A y \in S : x <= y

(***************************************************************************)
(* str.lower() and str.strip() on the characters of the model              *)
(***************************************************************************)
LowerChar(c) ==
    CASE c = "A" -> "a"
      [] c = "E" -> "e"
      [] OTHER -> c

Lower(s) == [i \in 1..Len(s) |-> LowerChar(s[i])]

IsSpace(c) == c = " "

Strip(s) ==
    LET keep == {i \in 1..Len(s) : ~IsSpace(s[i])}
    IN  IF keep = {} THEN <<>>
        ELSE SubSeq(s, SetMin(keep), SetMax(keep))

\* query.lower().strip()
Normalize(s) == Strip(Lower(s))

(***************************************************************************)
(* difflib.SequenceMatcher(None, a, b).ratio(), no junk, autojunk inactive *)
(* below 200 characters.  Ranges are alo..ahi-1 and blo..bhi-1.            *)
(***************************************************************************)
RECURSIVE LongestFrom(_, _, _, _, _, _, _, _)
LongestFrom(a, b, i, ahi, blo, bhi, j2len, best) ==
    IF i >= ahi THEN best
    ELSE LET newj2len == [j \in blo..(bhi - 1) |->
                            IF a[i] = b[j]
                            THEN (IF j > blo THEN j2len[j - 1] ELSE 0) + 1
                            ELSE 0]
             kmax == SetMax({newj2len[j] : j \in blo..(bhi - 1)})
             newbest == IF kmax > best[3]
                        THEN LET j == SetMin({jj \in blo..(bhi - 1) : newj2len[jj] = kmax})
                             IN  <<i - kmax + 1, j - kmax + 1, kmax>>
                        ELSE best
         IN  LongestFrom(a, b, i + 1, ahi, blo, bhi, newj2len, newbest)

\* <<besti, bestj, bestsize>>
find_longest_match(a, b, alo, ahi, blo, bhi) ==
    IF alo >= ahi \/ blo >= bhi THEN <<alo, blo, 0>>
    ELSE LongestFrom(a, b, alo, ahi, blo, bhi,
                     [j \in blo..(bhi - 1) |-> 0], <<alo, blo, 0>>)

\* total size of get_matching_blocks()
RECURSIVE MatchingSize(_, _, _, _, _, _)
MatchingSize(a, b, alo, ahi, blo, bhi) ==
    LET m == find_longest_match(a, b, alo, ahi, blo, bhi)
        i == m[1]
        j == m[2]
        k == m[3]
    IN  IF k = 0 THEN 0
        ELSE k
             + (IF alo < i /\ blo < j
                THEN MatchingSize(a, b, alo, i, blo, j) ELSE 0)
             + (IF i + k < ahi /\ j + k < bhi
                THEN MatchingSize(a, b, i + k, ahi, j + k, bhi) ELSE 0)

\* mutant: the factor 2.0 is lost
CalculateRatio_NoFactor(matches, length) ==
    IF length # 0 THEN <<matches, length>> ELSE <<1, 1>>

\* _calculate_ratio: 2.0 * matches / length, and 1.0 when length is 0
CalculateRatio(matches, length) ==
    IF length # 0 THEN <<2 * matches, length>> ELSE <<1, 1>>

Ratio(a, b) ==
    CalculateRatio(MatchingSize(a, b, 1, Len(a) + 1, 1, Len(b) + 1),
                   Len(a) + Len(b))

(***************************************************************************)
(* SIMILARITY_THRESHOLD = 0.95                                             *)
(***************************************************************************)
ThresholdNum == 95
ThresholdDen == 100

\* mutant: >= instead of >
IsHighSimilarity_Ge(sim) == sim[1] * ThresholdDen >= ThresholdNum * sim[2]

\* similarity > SIMILARITY_THRESHOLD
IsHighSimilarity(sim) == sim[1] * ThresholdDen > ThresholdNum * sim[2]

(***************************************************************************)
(* Input universes                                                         *)
(***************************************************************************)
Langs == {"en", "fr"}

Chars == {"a", "A", " "}

Tails == {<<>>} \cup {<<c>> : c \in Chars}

\* a title long enough for one edit to leave the ratio above the threshold
LongName == [i \in 1..19 |-> "a"]

\* queries of the resolver; a directory entry is never the empty string
Names == Tails \cup {LongName \o t : t \in Tails}
FileNames == Names \ {<<>>}

\* queries and entries of the matcher on its own: LongName and
\* LongName \o "aa" have ratio 38/40, exactly the threshold
MatchNames == Names \cup {LongName \o <<"a", "a">>}

\* strings of the scorer on its own
ScoreChars == Chars \cup {"b"}
RECURSIVE StringsUpTo(_)
StringsUpTo(n) ==
    IF n = 0 THEN {<<>>}
    ELSE LET shorter == StringsUpTo(n - 1)
         IN  shorter \cup {Append(s, c) : s \in shorter, c \in ScoreChars}

\* os.listdir results: sequences of distinct names, in any order
Listings(names, n) ==
    {l \in UNION {[1..k -> names] : k \in 0..n} :
        \A i, j \in 1..Len(l) : i # j => l[i] # l[j]}

(***************************************************************************)
(* JSON values of the completion's answer, and Python's truth test         *)
(***************************************************************************)
JMissing == [t |-> "missing", b |-> FALSE, n |-> 0, s |-> <<>>]
JNull == [t |-> "null", b |-> FALSE, n |-> 0, s |-> <<>>]
JBool(b) == [t |-> "bool", b |-> b, n |-> 0, s |-> <<>>]
JNum(n) == [t |-> "num", b |-> FALSE, n |-> n, s |-> <<>>]
JStr(s) == [t |-> "str", b |-> FALSE, n |-> 0, s |-> s]

\* json_data.get(key, default)
Get(v, default) == IF v.t = "missing" THEN default ELSE v

Truthy(v) ==
    CASE v.t = "bool" -> v.b
      [] v.t = "num" -> v.n # 0
      [] v.t = "str" -> v.s # <<>>
      [] OTHER -> FALSE

NoResponse ==
    [kind |-> "none", redirect |-> JMissing, filename |-> JMissing,
     confidence |-> JMissing, rationale |-> None]

RedirectVals == {JMissing, JBool(TRUE), JBool(FALSE)}
FilenameVals ==
    {JMissing, JNull, JNum(1)} \cup {JStr(s) : s \in Tails \cup {LongName}}
ConfidenceVals == {JMissing, JNum(-5), JNum(8), JNum(15), JStr(<<"a">>)}
RationaleVals == {None, Some("close misspelling")}

\* what client.responses.create and the extraction can produce
Responses ==
    {[NoResponse EXCEPT !.kind = k] : k \in {"raise", "nojson", "badjson"}}
    \cup [kind : {"json"}, redirect : RedirectVals, filename : FilenameVals,
          confidence : ConfidenceVals, rationale : RationaleVals]

(***************************************************************************)
(* Results                                                                 *)
(***************************************************************************)
Rationale(text, name) == [text |-> text, name |-> name]

Decision(redirect, target, confidence, rationale) ==
    [redirect |-> redirect, target |-> target, confidence |-> confidence,
     rationale |-> rationale]

NoCalls == [basic |-> 0, ratio |-> 0, ai |-> 0, completion |-> 0]

\* the cache directory before anything is saved: files maps a stored path to
\* its content, dirs are the directories made, saved the save_to_cache calls
NoCache == [files |-> {}, dirs |-> {}, saved |-> {}]

\* get_cached_articles: exists is os.path.exists(lang_cache_dir), entries is
\* os.listdir(lang_cache_dir)
get_cached_articles(exists, entries, lang) ==
    IF ~exists THEN <<>>
    ELSE [i \in 1..Len(entries) |->
            [filename |-> entries[i], path |-> <<lang, entries[i]>>]]

(***************************************************************************)
(* ai_cache_match after the completion call: the tuple it returns          *)
(***************************************************************************)
AiResult(should_redirect, matching_article, confidence, rationale) ==
    [should_redirect |-> should_redirect, matching_article |-> matching_article,
     confidence |-> confidence, rationale |-> rationale]

\* the return after the try block: False, None, 0.0, "Error processing the request"
AiError ==
    AiResult(JBool(FALSE), None, JNum(0),
             Rationale("Error processing the request", <<>>))

\* except json.JSONDecodeError, around json.loads and the field handling
InnerCatches(exc) == exc = "JSONDecodeError"

\* mutant: the outer handler names the service's error only
OuterCatches_ApiOnly(exc) == exc = "APIError"

\* except Exception, around the whole call and its handling
OuterCatches(exc) == exc \in {"APIError", "JSONDecodeError", "AttributeError"}

\* how the try block ends: an exception it raised ("none" when it returned or
\* fell through), and the tuple it returned (AiError when it did not return)
Outcome(exc, value) == [exc |-> exc, value |-> value]

\* mutant: startswith instead of ==
MatchByName_Prefix(article_name, articles) ==
    LET n == Len(article_name)
        hits == {i \in 1..Len(articles) :
                    /\ n <= Len(articles[i].filename)
                    /\ SubSeq(Lower(articles[i].filename), 1, n) = Lower(article_name)}
    IN  IF hits = {} THEN None ELSE Some(articles[SetMin(hits)])

\* the loop over cached_articles comparing article["filename"].lower()
MatchByName(article_name, articles) ==
    LET hits == {i \in 1..Len(articles) :
                    Lower(articles[i].filename) = Lower(article_name)}
    IN  IF hits = {} THEN None ELSE Some(articles[SetMin(hits)])

\* the body of the try block
TryBody(resp, articles) ==
    CASE resp.kind = "raise" -> Outcome("APIError", AiError)
      [] resp.kind = "nojson" -> Outcome("none", AiError)
      [] resp.kind = "badjson" -> Outcome("JSONDecodeError", AiError)
      [] OTHER ->
         LET should_redirect == Get(resp.redirect, JBool(FALSE))
             article_name == Get(resp.filename, JStr(<<>>))
             confidence == Get(resp.confidence, JNum(0))
             rationale == IF resp.rationale = None
                          THEN Rationale("No rationale provided", <<>>)
                          ELSE Rationale(resp.rationale[1], <<>>)
         IN  IF Truthy(should_redirect) /\ Truthy(article_name)
             THEN IF article_name.t # "str"
                  THEN Outcome("AttributeError", AiError)   \* article_name.lower()
                  ELSE Outcome("none",
                               AiResult(should_redirect,
                                        MatchByName(article_name.s, articles),
                                        confidence, rationale))
             ELSE Outcome("none",
                          AiResult(should_redirect, None, confidence, rationale))

\* ai_cache_match from the completion call on: exc is the exception that
\* leaves the function, "none" when it returns value
ai_cache_match(resp, articles) ==
    LET out == TryBody(resp, articles)
    IN  IF out.exc = "none" \/ InnerCatches(out.exc) \/ OuterCatches(out.exc)
        THEN Outcome("none", out.value)
        ELSE out

\* mutant: the test of matching_article is dropped
FinalDecision_NoArticleTest(ai) ==
    IF Truthy(ai.should_redirect)
    THEN Decision(TRUE,
                  IF ai.matching_article = None THEN None
                  ELSE Some(ai.matching_article[1].path),
                  ai.confidence, ai.rationale)
    ELSE Decision(FALSE, None, ai.confidence, ai.rationale)

\* mutant: the redirect carries the fixed confidence of the fast path
FinalDecision_FixedConfidence(ai) ==
    IF Truthy(ai.should_redirect) /\ ai.matching_article # None
    THEN Decision(TRUE, Some(ai.matching_article[1].path), JNum(10),
                  ai.rationale)
    ELSE Decision(FALSE, None, ai.confidence, ai.rationale)

\* the tail of find_fuzzy_cache_match
FinalDecision(ai) ==
    IF Truthy(ai.should_redirect) /\ ai.matching_article # None
    THEN Decision(TRUE, Some(ai.matching_article[1].path), ai.confidence,
                  ai.rationale)
    ELSE Decision(FALSE, None, ai.confidence, ai.rationale)

(***************************************************************************)
(* find_fuzzy_cache_match, one call at a time                              *)
(***************************************************************************)
Init ==
    /\ pc = "idle"
    /\ prev = None
    /\ cache = NoCache
    /\ query = <<>>
    /\ language = "en"
    /\ dir_exists = FALSE
    /\ cached_articles = <<>>
    /\ idx = 0
    /\ similarity = <<0, 1>>
    /\ basic_match = None
    /\ response = NoResponse
    /\ result = None
    /\ calls = NoCalls

\* mutant: the emptiness test comes after the fast similarity check
FindEmpty_AfterMatcher(q, lang, exists) ==
    /\ pc = "idle"
    /\ UNCHANGED <<prev, cache>>
    /\ get_cached_articles(exists, <<>>, lang) = <<>>
    /\ query' = q
    /\ language' = lang
    /\ dir_exists' = exists
    /\ cached_articles' = <<>>
    /\ calls' = [calls EXCEPT !.basic = @ + 1]
    /\ result' = Some(Decision(FALSE, None, JNum(0),
                               Rationale("No cached articles available", <<>>)))
    /\ pc' = "done"
    /\ UNCHANGED <<idx, similarity, basic_match, response>>

\* the listing is empty: return without calling a matcher
FindEmpty(q, lang, exists) ==
    /\ pc = "idle"
    /\ UNCHANGED <<prev, cache>>
    /\ get_cached_articles(exists, <<>>, lang) = <<>>
    /\ query' = q
    /\ language' = lang
    /\ dir_exists' = exists
    /\ cached_articles' = <<>>
    /\ result' = Some(Decision(FALSE, None, JNum(0),
                               Rationale("No cached articles available", <<>>)))
    /\ pc' = "done"
    /\ UNCHANGED <<idx, similarity, basic_match, response, calls>>

\* the listing has entries: enter basic_similarity_check
FindList(q, lang, entries) ==
    /\ pc = "idle"
    /\ UNCHANGED <<prev, cache>>
    /\ entries # <<>>
    /\ query' = q
    /\ language' = lang
    /\ dir_exists' = TRUE
    /\ cached_articles' = get_cached_articles(TRUE, entries, lang)
    /\ idx' = 1
    /\ calls' = [calls EXCEPT !.basic = @ + 1]
    /\ pc' = "scan"
    /\ UNCHANGED <<similarity, basic_match, response, result>>

\* basic_similarity_check, one loop iteration per step
ScanExact ==
    /\ pc = "scan"
    /\ UNCHANGED <<prev, cache>>
    /\ idx <= Len(cached_articles)
    /\ Normalize(query) = Normalize(cached_articles[idx].filename)
    /\ basic_match' = Some(cached_articles[idx])
    /\ pc' = "matched"
    /\ UNCHANGED <<query, language, dir_exists, cached_articles, idx, similarity,
                   response, result, calls>>

ScanSimilar ==
    /\ pc = "scan"
    /\ UNCHANGED <<prev, cache>>
    /\ idx <= Len(cached_articles)
    /\ Normalize(query) # Normalize(cached_articles[idx].filename)
    /\ LET sim == Ratio(Normalize(query), Normalize(cached_articles[idx].filename))
       IN  /\ IsHighSimilarity(sim)
           /\ similarity' = sim
    /\ calls' = [calls EXCEPT !.ratio = @ + 1]
    /\ basic_match' = Some(cached_articles[idx])
    /\ pc' = "matched"
    /\ UNCHANGED <<query, language, dir_exists, cached_articles, idx, response, result>>

ScanNext ==
    /\ pc = "scan"
    /\ UNCHANGED <<prev, cache>>
    /\ idx <= Len(cached_articles)
    /\ Normalize(query) # Normalize(cached_articles[idx].filename)
    /\ LET sim == Ratio(Normalize(query), Normalize(cached_articles[idx].filename))
       IN  /\ ~IsHighSimilarity(sim)
           /\ similarity' = sim
    /\ calls' = [calls EXCEPT !.ratio = @ + 1]
    /\ idx' = idx + 1
    /\ UNCHANGED <<pc, query, language, dir_exists, cached_articles, basic_match,
                   response, result>>

ScanNone ==
    /\ pc = "scan"
    /\ UNCHANGED <<prev, cache>>
    /\ idx > Len(cached_articles)
    /\ basic_match' = None
    /\ pc' = "matched"
    /\ UNCHANGED <<query, language, dir_exists, cached_articles, idx, similarity,
                   response, result, calls>>

\* if basic_match: return True, basic_match["path"], 1.0, ...
ReturnBasic ==
    /\ pc = "matched"
    /\ UNCHANGED <<prev, cache>>
    /\ basic_match # None
    /\ result' = Some(Decision(TRUE, Some(basic_match[1].path), JNum(10),
                               Rationale("Exact or near-exact match: ",
                                         basic_match[1].filename)))
    /\ pc' = "done"
    /\ UNCHANGED <<query, language, dir_exists, cached_articles, idx, similarity,
                   basic_match, response, calls>>

\* mutant: the arbitration is entered whatever the matcher returned
CallAi_Always ==
    /\ pc = "matched"
    /\ UNCHANGED <<prev, cache>>
    /\ cached_articles # <<>>
    /\ calls' = [calls EXCEPT !.ai = @ + 1, !.completion = @ + 1]
    /\ pc' = "wait"
    /\ UNCHANGED <<query, language, dir_exists, cached_articles, idx, similarity,
                   basic_match, response, result>>

\* ai_cache_match up to client.responses.create
CallAi ==
    /\ pc = "matched"
    /\ UNCHANGED <<prev, cache>>
    /\ basic_match = None
    /\ cached_articles # <<>>
    /\ calls' = [calls EXCEPT !.ai = @ + 1, !.completion = @ + 1]
    /\ pc' = "wait"
    /\ UNCHANGED <<query, language, dir_exists, cached_articles, idx, similarity,
                   basic_match, response, result>>

\* the completion answers or raises; ai_cache_match and the resolver return
Completion(resp) ==
    /\ pc = "wait"
    /\ UNCHANGED <<prev, cache>>
    /\ response' = resp
    /\ LET out == ai_cache_match(resp, cached_articles)
       IN  IF out.exc = "none"
           THEN /\ result' = Some(FinalDecision(out.value))
                /\ pc' = "done"
           ELSE /\ result' = None   \* the exception leaves the resolver
                /\ pc' = "raised"
    /\ UNCHANGED <<query, language, dir_exists, cached_articles, idx, similarity,
                   basic_match, calls>>

\* the caller takes the Decision; the next call starts afresh
Return ==
    /\ pc \in {"done", "raised"}
    /\ UNCHANGED <<prev, cache>>
    /\ pc' = "idle"
    /\ query' = <<>>
    /\ language' = "en"
    /\ dir_exists' = FALSE
    /\ cached_articles' = <<>>
    /\ idx' = 0
    /\ similarity' = <<0, 1>>
    /\ basic_match' = None
    /\ response' = NoResponse
    /\ result' = None
    /\ calls' = NoCalls

Next ==
    \/ \E q \in Names, lang \in Langs, exists \in BOOLEAN : FindEmpty(q, lang, exists)
    \/ \E q \in Names, lang \in Langs, entries \in Listings(FileNames, MaxFiles) :
           FindList(q, lang, entries)
    \/ ScanExact
    \/ ScanSimilar
    \/ ScanNext
    \/ ScanNone
    \/ ReturnBasic
    \/ CallAi
    \/ \E resp \in Responses : Completion(resp)
    \/ Return

Spec == Init /\ [][Next]_vars

(***************************************************************************)
(* basic_similarity_check on its own                                       *)
(***************************************************************************)
InitMatch ==
    /\ pc = "scan"
    /\ prev = None
    /\ cache = NoCache
    /\ query \in MatchNames
    /\ language = "en"
    /\ dir_exists = TRUE
    /\ \E entries \in Listings(MatchNames \ {<<>>}, MaxFiles) :
           cached_articles = get_cached_articles(TRUE, entries, "en")
    /\ idx = 1
    /\ similarity = <<0, 1>>
    /\ basic_match = None
    /\ response = NoResponse
    /\ result = None
    /\ calls = [NoCalls EXCEPT !.basic = 1]

NextMatch == ScanExact \/ ScanSimilar \/ ScanNext \/ ScanNone

SpecMatch == InitMatch /\ [][NextMatch]_vars

(***************************************************************************)
(* The similarity score on its own: query against one filename             *)
(***************************************************************************)
InitScore ==
    /\ pc = "score"
    /\ prev = None
    /\ cache = NoCache
    /\ query \in StringsUpTo(MaxLen)
    /\ language = "en"
    /\ dir_exists = TRUE
    /\ \E name \in StringsUpTo(MaxLen) :
           cached_articles = get_cached_articles(TRUE, <<name>>, "en")
    /\ idx = 1
    /\ similarity = <<0, 1>>
    /\ basic_match = None
    /\ response = NoResponse
    /\ result = None
    /\ calls = NoCalls

\* difflib.SequenceMatcher(None, query_normalized, article_name_normalized).ratio()
Score ==
    /\ pc = "score"
    /\ UNCHANGED <<prev, cache>>
    /\ similarity' = Ratio(Normalize(query), Normalize(cached_articles[idx].filename))
    /\ calls' = [calls EXCEPT !.ratio = @ + 1]
    /\ pc' = "scored"
    /\ UNCHANGED <<query, language, dir_exists, cached_articles, idx,
                   basic_match, response, result>>

NextScore == Score

SpecScore == InitScore /\ [][NextScore]_vars

(***************************************************************************)
(* Two calls of find_fuzzy_cache_match with the same query and language    *)
(* against the same directory content, os.listdir free to order the        *)
(* entries anew, the completion giving the answer it gave before           *)
(***************************************************************************)
TwiceResponses ==
    {[NoResponse EXCEPT !.kind = "raise"]}
    \cup [kind : {"json"}, redirect : {JBool(TRUE)},
          filename : {JStr(<<"a">>), JStr(LongName)},
          confidence : {JNum(8)}, rationale : {Some("close misspelling")}]

\* the names a listing holds
Entries(articles) == {articles[i].filename : i \in 1..Len(articles)}

\* the caller keeps the first Decision and calls again
ReturnFirst ==
    /\ pc = "done"
    /\ prev = None
    /\ prev' = Some([query |-> query, language |-> language,
                     dir_exists |-> dir_exists,
                     entries |-> Entries(cached_articles),
                     response |-> response, result |-> result])
    /\ pc' = "idle"
    /\ query' = <<>>
    /\ language' = "en"
    /\ dir_exists' = FALSE
    /\ cached_articles' = <<>>
    /\ idx' = 0
    /\ similarity' = <<0, 1>>
    /\ basic_match' = None
    /\ response' = NoResponse
    /\ result' = None
    /\ calls' = NoCalls
    /\ UNCHANGED cache

\* the previous call, once there is one
PrevCall ==
    IF prev # None THEN prev[1]
    ELSE [query |-> <<>>, language |-> "en", dir_exists |-> FALSE,
          entries |-> {}, response |-> NoResponse, result |-> None]

NextTwice ==
    \/ \E q \in Names, lang \in Langs, exists \in BOOLEAN :
           prev = None /\ FindEmpty(q, lang, exists)
    \/ \E q \in Names, lang \in Langs, entries \in Listings(FileNames, MaxFiles) :
           prev = None /\ FindList(q, lang, entries)
    \/ /\ prev # None
       /\ PrevCall.entries = {}
       /\ FindEmpty(PrevCall.query, PrevCall.language, PrevCall.dir_exists)
    \/ \E entries \in Listings(FileNames, MaxFiles) :
           /\ prev # None
           /\ {entries[i] : i \in 1..Len(entries)} = PrevCall.entries
           /\ FindList(PrevCall.query, PrevCall.language, entries)
    \/ ScanExact
    \/ ScanSimilar
    \/ ScanNext
    \/ ScanNone
    \/ ReturnBasic
    \/ CallAi
    \/ \E resp \in TwiceResponses :
           /\ \/ prev = None
              \/ PrevCall.response.kind = "none"
              \/ resp = PrevCall.response
           /\ Completion(resp)
    \/ ReturnFirst

SpecTwice == Init /\ [][NextTwice]_vars

(***************************************************************************)
(* find_fuzzy_cache_match on the titles of the documented scenarios        *)
(***************************************************************************)
\* "Albert Einstein"
AlbertEinsteinQuery ==
    <<"A", "l", "b", "e", "r", "t", " ", "E", "i", "n", "s", "t", "e", "i", "n">>

\* "Einstein, Albert"
EinsteinAlbertQuery ==
    <<"E", "i", "n", "s", "t", "e", "i", "n", ",", " ", "A", "l", "b", "e", "r", "t">>

\* "Albert_Einstein"
AlbertEinsteinFile ==
    <<"A", "l", "b", "e", "r", "t", "_", "E", "i", "n", "s", "t", "e", "i", "n">>

\* "Einstein"
EinsteinFile == <<"E", "i", "n", "s", "t", "e", "i", "n">>

\* the two scenario queries, " Albert_Einstein" (equal to the entry once
\* normalized) and "Albert_Einsteins" (ratio 30/31)
ScenarioQueries ==
    {AlbertEinsteinQuery, EinsteinAlbertQuery,
     <<" ">> \o AlbertEinsteinFile, AlbertEinsteinFile \o <<"s">>}

ScenarioFiles == {AlbertEinsteinFile, Lower(AlbertEinsteinFile), EinsteinFile}

ScenarioResponses ==
    {[NoResponse EXCEPT !.kind = k] : k \in {"raise", "nojson", "badjson"}}
    \cup [kind : {"json"}, redirect : RedirectVals,
          filename : {JMissing, JNum(1), JStr(AlbertEinsteinFile),
                      JStr(Lower(AlbertEinsteinFile)), JStr(EinsteinFile),
                      JStr(AlbertEinsteinQuery)},
          confidence : ConfidenceVals \cup {JNum(0), JNum(10)},
          rationale : RationaleVals]

NextScenario ==
    \/ \E q \in ScenarioQueries, lang \in Langs, exists \in BOOLEAN :
           FindEmpty(q, lang, exists)
    \/ \E q \in ScenarioQueries, lang \in Langs,
          entries \in Listings(ScenarioFiles, MaxFiles) :
           FindList(q, lang, entries)
    \/ ScanExact
    \/ ScanSimilar
    \/ ScanNext
    \/ ScanNone
    \/ ReturnBasic
    \/ CallAi
    \/ \E resp \in ScenarioResponses : Completion(resp)
    \/ Return

SpecScenario == Init /\ [][NextScenario]_vars

(***************************************************************************)
(* The file cache of backend.py.  A path is the string the code builds,    *)
(* relative to CACHE_DIR, with the language code and the suffix ".html" as *)
(* one element each; the file system finds a file by the path's            *)
(* components, empty components dropped.                                   *)
(***************************************************************************)
TitleChars == {"a", " ", "_", "/"}

RECURSIVE TitlesUpTo(_)
TitlesUpTo(n) ==
    IF n = 0 THEN {<<>>}
    ELSE LET shorter == TitlesUpTo(n - 1)
         IN  shorter \cup {Append(t, c) : t \in shorter, c \in TitleChars}

Htmls == {"<html>"}

MaxTranslations == {1, 5}

\* title.replace(' ', '_')
ReplaceSpaces(title) ==
    [i \in 1..Len(title) |-> IF title[i] = " " THEN "_" ELSE title[i]]

\* f"{language}/{title.replace(' ', '_')}"
get_cache_key(title, lang, max_translations) ==
    <<lang, "/">> \o ReplaceSpaces(title)

\* os.path.join(CACHE_DIR, f"{cache_key}.html")
get_cache_path(cache_key) == cache_key \o <<".html">>

\* the components of a path as the file system resolves it
RECURSIVE Components(_)
Components(path) ==
    LET slashes == {i \in 1..Len(path) : path[i] = "/"}
    IN  IF slashes = {}
        THEN IF path = <<>> THEN <<>> ELSE <<path>>
        ELSE LET i == SetMin(slashes)
                 rest == Components(SubSeq(path, i + 1, Len(path)))
             IN  IF i = 1 THEN rest
                 ELSE <<SubSeq(path, 1, i - 1)>> \o rest

\* os.path.exists(cache_path): a file or a directory is there
PathExists(c, path) ==
    \/ \E f \in c.files : f.path = Components(path)
    \/ Components(path) \in c.dirs

\* os.makedirs(os.path.dirname(cache_path), exist_ok=True)
MadeDirs(path) ==
    LET parts == Components(path)
    IN  {SubSeq(parts, 1, k) : k \in 1..(Len(parts) - 1)}

InitCache ==
    /\ pc = "idle"
    /\ prev = None
    /\ cache = NoCache
    /\ query = <<>>
    /\ language = "en"
    /\ dir_exists = FALSE
    /\ cached_articles = <<>>
    /\ idx = 0
    /\ similarity = <<0, 1>>
    /\ basic_match = None
    /\ response = NoResponse
    /\ result = None
    /\ calls = NoCalls

save_to_cache(title, lang, max_translations, html_content) ==
    LET cache_path == get_cache_path(get_cache_key(title, lang, max_translations))
        call == [title |-> title, language |-> lang, path |-> cache_path]
    IN  /\ call \in cache.saved \/ Cardinality(cache.saved) < MaxSaves
        /\ cache' = [files |-> {f \in cache.files : f.path # Components(cache_path)}
                                 \cup {[path |-> Components(cache_path),
                                        content |-> html_content]},
                     dirs |-> cache.dirs \cup MadeDirs(cache_path),
                     saved |-> cache.saved \cup {call}]
        /\ query' = title
        /\ language' = lang
        /\ result' = Some(cache_path)
        /\ pc' = "saved"
        /\ UNCHANGED <<dir_exists, cached_articles, idx, similarity, basic_match,
                       response, calls, prev>>

check_cache(title, lang, max_translations) ==
    LET cache_path == get_cache_path(get_cache_key(title, lang, max_translations))
    IN  /\ query' = title
        /\ language' = lang
        /\ result' = IF PathExists(cache, cache_path) THEN Some(cache_path) ELSE None
        /\ pc' = "checked"
        /\ UNCHANGED <<dir_exists, cached_articles, idx, similarity, basic_match,
                       response, calls, prev, cache>>

NextCache ==
    \/ \E title \in TitlesUpTo(MaxTitle), lang \in Langs, m \in MaxTranslations,
          html \in Htmls : save_to_cache(title, lang, m, html)
    \/ \E title \in TitlesUpTo(MaxTitle), lang \in Langs, m \in MaxTranslations :
           check_cache(title, lang, m)

SpecCache == InitCache /\ [][NextCache]_vars

(***************************************************************************)
(* Properties                                                              *)
(***************************************************************************)
Returned == pc = "done" /\ result # None

\* the entries whose normalized filename equals the normalized query
ExactEntries ==
    {i \in 1..Len(cached_articles) :
        Normalize(cached_articles[i].filename) = Normalize(query)}

ErrorDecision ==
    Decision(FALSE, None, JNum(0), Rationale("Error processing the request", <<>>))

\* C1: when some listed entry's normalized filename equals the normalized
\* query, the call returns redirect=true, confidence 1.0 and the path of such
\* an entry, and neither ai_cache_match nor the completion is invoked.
C1_ExactEntryIsTheTarget ==
    (pc = "done" /\ ExactEntries # {}) =>
        /\ result # None
        /\ result[1].redirect
        /\ result[1].confidence = JNum(10)
        /\ \E i \in ExactEntries : result[1].target = Some(cached_articles[i].path)
        /\ calls.ai = 0
        /\ calls.completion = 0

\* C2: with an empty listing (the partition missing or empty) the call returns
\* redirect=false, no target, confidence 0.0 and the rationale "No cached
\* articles available", and neither matcher is invoked.
C2_EmptyListingReturnsNoCache ==
    (pc = "done" /\ cached_articles = <<>>) =>
        /\ result = Some(Decision(FALSE, None, JNum(0),
                                  Rationale("No cached articles available", <<>>)))
        /\ calls.basic = 0
        /\ calls.ratio = 0
        /\ calls.ai = 0
        /\ calls.completion = 0

C2_Witness ==
    /\ Returned
    /\ ~dir_exists
    /\ cached_articles = <<>>
    /\ language = "fr"

\* C3: in every returned Decision, redirect=true implies the target is the
\* path of an entry listed for the query's language in this call, and
\* redirect=false implies there is no target.
C3_TargetIsListed ==
    pc = "done" =>
        /\ result # None
        /\ result[1].redirect =>
              /\ result[1].target # None
              /\ \E i \in 1..Len(cached_articles) :
                    /\ result[1].target[1] = cached_articles[i].path
                    /\ cached_articles[i].path[1] = language
        /\ ~result[1].redirect => result[1].target = None

C3_Witness ==
    /\ Returned
    /\ response.kind = "json"
    /\ result[1].redirect
    /\ Len(cached_articles) = 2
    /\ result[1].target = Some(cached_articles[2].path)
    /\ language = "fr"

\* the answer names no listed entry: no filename, a filename that is not a
\* string, or a string that equals no listed filename when both are lowercased
NamesNoEntry ==
    \/ response.filename.t # "str"
    \/ \A i \in 1..Len(cached_articles) :
          Lower(cached_articles[i].filename) # Lower(response.filename.s)

\* C4: when the matcher found nothing and the answer claims redirect:true with
\* a filename that names no listed entry (missing and empty included), the
\* call returns redirect=false with no target.
C4_UnlistedFilenameNeverRedirects ==
    (/\ pc = "done"
     /\ response.kind = "json"
     /\ Truthy(response.redirect)
     /\ NamesNoEntry) =>
        /\ result # None
        /\ ~result[1].redirect
        /\ result[1].target = None

C4_Witness ==
    /\ Returned
    /\ response.kind = "json"
    /\ response.redirect = JBool(TRUE)
    /\ response.filename.t = "str"
    /\ response.filename.s # <<>>
    /\ NamesNoEntry
    /\ ~result[1].redirect

\* C5: every Decision with redirect=false has confidence exactly 0.0,
\* whatever confidence the answer held.
C5_NoRedirectHasZeroConfidence ==
    (Returned /\ ~result[1].redirect) => result[1].confidence = JNum(0)

\* C6: the confidence of every Decision is a number in [0,1].
C6_ConfidenceInUnitRange ==
    Returned =>
        /\ result[1].confidence.t = "num"
        /\ 0 <= result[1].confidence.n
        /\ result[1].confidence.n <= 10

\* the completion raised, no JSON object was found, or it did not parse
CallOrParseFailed == response.kind \in {"raise", "nojson", "badjson"}

\* a parsed field is present with another type than the prompt asks for
UnexpectedType ==
    /\ response.kind = "json"
    /\ \/ response.redirect.t \notin {"missing", "bool"}
       \/ response.filename.t \notin {"missing", "str"}
       \/ response.confidence.t \notin {"missing", "num"}

\* a parsed field makes the handling raise: redirect and filename are both
\* truthy and filename is not a string
FieldAccessRaises ==
    /\ response.kind = "json"
    /\ Truthy(response.redirect)
    /\ Truthy(response.filename)
    /\ response.filename.t # "str"

\* C7 as stated: the arbitration step never makes the call raise, and a failed
\* completion call, extraction or parse, or a parsed field of an unexpected
\* type, gives redirect=false, no target, confidence 0.0 and the rationale
\* "Error processing the request".
C7_AnyUnexpectedTypeIsAnError ==
    /\ pc # "raised"
    /\ (pc = "done" /\ calls.completion = 1 /\ (CallOrParseFailed \/ UnexpectedType))
          => result = Some(ErrorDecision)

\* C7 amended: the arbitration step never makes the call raise, and a failed
\* completion call, extraction or parse, or a truthy redirect with a truthy
\* filename that is not a string, gives the error Decision.
C7_FailuresGiveErrorDecision ==
    /\ pc # "raised"
    /\ (pc = "done" /\ calls.completion = 1 /\ (CallOrParseFailed \/ FieldAccessRaises))
          => result = Some(ErrorDecision)

C7_Witness ==
    /\ pc = "done"
    /\ calls.completion = 1
    /\ response.kind = "json"
    /\ response.redirect = JBool(TRUE)
    /\ response.filename = JNum(1)
    /\ result = Some(ErrorDecision)

\* C8: the completion is called at most once per call, only after the matcher
\* was entered on a non-empty listing, scanned every entry and returned no
\* match; it is never called when the matcher returned an entry.
C8_ArbitrationOnlyAfterMatcherFails ==
    /\ calls.completion <= 1
    /\ calls.ai = calls.completion
    /\ calls.completion = 1 =>
          /\ pc \in {"wait", "done"}
          /\ cached_articles # <<>>
          /\ calls.basic = 1
          /\ idx = Len(cached_articles) + 1
          /\ basic_match = None
    /\ basic_match # None => calls.completion = 0
    /\ calls.basic = 1 => cached_articles # <<>>

C8_Witness ==
    /\ pc = "done"
    /\ calls.completion = 1
    /\ Len(cached_articles) = 2
    /\ calls.ratio = 2

\* an entry qualifies: equal after normalization, or ratio above 19/20
Qualifies(i) ==
    LET q == Normalize(query)
        a == Normalize(cached_articles[i].filename)
        r == Ratio(q, a)
    IN  q = a \/ 20 * r[1] > 19 * r[2]

\* C9: basic_similarity_check returns the first entry in iteration order that
\* is equal after normalization or has ratio strictly above 0.95, None when
\* there is none (for an empty sequence without computing a ratio); a ratio of
\* exactly 0.95 does not match.
C9_FirstQualifyingEntry ==
    pc = "matched" =>
        LET qualifying == {i \in 1..Len(cached_articles) : Qualifies(i)}
        IN  /\ basic_match = IF qualifying = {} THEN None
                             ELSE Some(cached_articles[SetMin(qualifying)])
            /\ cached_articles = <<>> => calls.ratio = 0

\* the last ratio computed is exactly 0.95 and nothing matched
C9_Witness ==
    /\ pc = "matched"
    /\ basic_match = None
    /\ calls.ratio = Len(cached_articles)
    /\ Len(cached_articles) >= 1
    /\ 20 * similarity[1] = 19 * similarity[2]

C11_SecondCallSameDecision ==
    (pc = "done" /\ prev # None) =>
        /\ result # None
        /\ result[1].redirect = PrevCall.result[1].redirect
        /\ result[1].target = PrevCall.result[1].target
        /\ result[1].confidence = PrevCall.result[1].confidence

\* C12: Scenario A, query "Albert Einstein" with the one entry
\* "Albert_Einstein": the matcher finds it and the call returns redirect=true
\* with confidence 1.0 without calling the completion.
C12_ScenarioAMatchesDeterministically ==
    (/\ pc = "done"
     /\ query = AlbertEinsteinQuery
     /\ Entries(cached_articles) = {AlbertEinsteinFile}) =>
        /\ basic_match # None
        /\ result # None
        /\ result[1].redirect
        /\ result[1].confidence = JNum(10)
        /\ calls.completion = 0

\* the listed entries whose lowercased filename equals the lowercased answer
NamedEntries ==
    {i \in 1..Len(cached_articles) :
        /\ response.filename.t = "str"
        /\ Lower(cached_articles[i].filename) = Lower(response.filename.s)}

\* C13: when the matcher found nothing and the answer is a JSON object with
\* redirect true, a filename equal to a listed one up to letter case and a
\* confidence c in [0,1], the call returns redirect=true, the path of an entry
\* so named, the confidence c and the answer's rationale.
C13_ArbitrationAnswerIsTheDecision ==
    (/\ pc = "done"
     /\ calls.completion = 1
     /\ response.kind = "json"
     /\ response.redirect = JBool(TRUE)
     /\ NamedEntries # {}
     /\ response.confidence.t = "num"
     /\ 0 <= response.confidence.n
     /\ response.confidence.n <= 10) =>
        /\ result # None
        /\ result[1].redirect
        /\ \E i \in NamedEntries : result[1].target = Some(cached_articles[i].path)
        /\ result[1].confidence = response.confidence
        /\ response.rationale # None =>
              result[1].rationale = Rationale(response.rationale[1], <<>>)

\* Scenario B: "Einstein, Albert", the entry "Albert_Einstein", the answer
\* names it with confidence 0.8
C13_Witness ==
    /\ pc = "done"
    /\ query = EinsteinAlbertQuery
    /\ Entries(cached_articles) = {AlbertEinsteinFile}
    /\ calls.completion = 1
    /\ response.redirect = JBool(TRUE)
    /\ response.filename = JStr(AlbertEinsteinFile)
    /\ response.confidence = JNum(8)
    /\ response.rationale # None
    /\ result # None
    /\ result[1].redirect
    /\ result[1].confidence = JNum(8)

\* the save_to_cache calls so far with the language of the check and a title
\* equal to its title once spaces are underscores
MatchingSaves(c, title, lang) ==
    {call \in c.saved :
        call.language = lang /\ ReplaceSpaces(call.title) = ReplaceSpaces(title)}

\* C14: check_cache returns a path if and only if an earlier save_to_cache
\* had the same language and a title equal once spaces are underscores,
\* whatever max_translations was; the path is the one that save returned; and
\* check_cache leaves the cache as it was.
C14_CheckFindsExactlyTheSavedTitles ==
    [][pc' = "checked" =>
          /\ cache' = cache
          /\ result' # None <=> MatchingSaves(cache, query', language') # {}
          /\ result' # None =>
                \E call \in MatchingSaves(cache, query', language') :
                    result' = Some(call.path)]_vars

====
